---------------------------- MODULE Spec2Model ----------------------------
(***************************************************************************)
(* Model of the spectral-sensor firmware SpectralFW_v2.0.0.ino: the        *)
(* sensor initialisation of setup(), the auto-gain policy                  *)
(* adjustGainIfNeeded() and the acquisition cycle loop() with the          *)
(* telemetry record it writes to the serial line.                          *)
(*                                                                         *)
(* The three sensor drivers and the serial port are outside the            *)
(* repository: what a driver call returns is an input chosen from a small  *)
(* set, and the serial port is the sequence of tokens written to it.       *)
(* loop() is cut at its calls into the drivers, which are the points       *)
(* where the single thread of control waits for the hardware.              *)
(*                                                                         *)
(* The dashboard App.tsx is the consumer of that serial line: readLoop     *)
(* takes the text in chunks, cuts it into lines, parses each line and      *)
(* merges the record into the state `data`.  Spec and FairSpec run the     *)
(* device with the dashboard at rest; DashSpec runs the dashboard over     *)
(* lines already written to the port.                                      *)
(***************************************************************************)
EXTENDS Integers, Sequences, FiniteSets

(***************************************************************************)
(* Program constants.                                                      *)
(***************************************************************************)
SATURATION_THRESHOLD == 60000
LOW_SIGNAL_THRESHOLD == 1000
NUM_GAINS == 11
MAX_ATTEMPTS == 5
InitialGainIndex == 5
FW_VERSION == "2.0.1"

gainNames == <<"0.5x", "1x", "2x", "4x", "8x", "16x",
               "32x", "64x", "128x", "256x", "512x">>

\* The keys printed before channels[0] .. channels[7].
channelKeys == <<"F1", "F2", "F3", "F4", "F5", "F6", "F7", "F8">>

(***************************************************************************)
(* Bounds of the inputs.                                                   *)
(***************************************************************************)
\* A reading's peak sits on channel F1 or on one of the last NumTailPeaks
\* channels (F8, F7, ...).
NumTailPeaks == 1

PeakChans == {1} \cup {9 - k : k \in 1..NumTailPeaks}

\* Peak intensities on both sides of the two thresholds, and the ends of
\* the uint16_t range.
PeakLevels == {0, 999, 1000, 59999, 60000, 65535}

ScenarioA == <<100, 200, 60500, 300, 400, 500, 600, 700>>

Flat(lo, hi, p) == [i \in 1..8 |-> IF i = p THEN hi ELSE lo]

\* What a successful readAllChannels() can leave in F1..F8.
Readings == {ScenarioA} \cup {Flat(0, hi, p) : hi \in PeakLevels, p \in PeakChans}

\* What ltr.readUVS() can return (uint32_t).
UvValues == {0, 7}

\* What tsl.getFullLuminosity() can return: (ir << 16) | full, here with
\* ir below 2^15 so that the value stays within TLC's 32-bit integers.
LumValues == {0, 5 * 65536, 32767 * 65536 + 65535}

(***************************************************************************)
(* A float is its class and, when finite, its value.                       *)
(***************************************************************************)
Fin(n) == [cls |-> "fin", v |-> n]
NaN == [cls |-> "nan", v |-> 0]
PosInf == [cls |-> "pinf", v |-> 0]
NegInf == [cls |-> "ninf", v |-> 0]

\* What tsl.calculateLux() can return: -1 signals overflow in the driver.
LuxValues == {Fin(0), Fin(250), Fin(-1), NaN, PosInf, NegInf}

isnan(x) == x.cls = "nan"

(***************************************************************************)
(* Serial tokens.  A line is a sequence of <<key, value>> pairs; a value   *)
(* is a quoted string, a number literal, or a bare word that is no JSON    *)
(* literal ("nan", "inf").                                                 *)
(***************************************************************************)
Str(s) == [t |-> "str", v |-> s]
Num(n) == [t |-> "num", v |-> n]
Flt(x) == [t |-> "flt", v |-> x.v]
Bare(w) == [t |-> "bare", v |-> w]
Bool(b) == [t |-> "bool", v |-> b]

VARIABLES
    pc,               \* where the single thread of control stands
    as7341_ok,        \* readiness flags
    ltr390_ok,
    tsl2591_ok,
    initCalls,        \* how often each driver's begin() was called
    currentGainIndex,
    as7341_gain,      \* the gain index last given to as7341.setGain (-1: none)
    as7341_readings,  \* F1..F8 as the driver holds them after its last good read
    channels,         \* loop()'s locals
    asOk,
    attempts,
    uv,
    als,
    ir,
    full,
    lux,
    nReads,           \* per sensor, the driver reads since loop() was entered
    nAdjusts,         \* adjustGainIfNeeded() calls since loop() was entered
    lastRead,         \* outcome of the last readAllChannels() of this loop()
    lastAdjust,       \* result of the last adjustGainIfNeeded() of this loop()
    readGain,         \* the sensor's gain index at the last readAllChannels()
    tslRaw,           \* what the TSL2591 driver returned in this loop()
    serialLine,       \* tokens written since the last line end
    serialOut,        \* complete lines written since loop() was entered
    tftAs,            \* the AS7341 status shown on the display
    txMsgs,           \* dashboard: the lines the device sends on the port
    txTail,           \* dashboard: text sent after them with no line end
    rxStream,         \* dashboard: the text the port has not delivered yet
    buffer,           \* dashboard: readLoop's buffer
    data,             \* dashboard: the React state `data`
    dpc,              \* dashboard: idle, reading (in readLoop) or closed
    nLines,           \* dashboard: the lines the for loop has taken
    nSetData,         \* dashboard: the calls of setData made
    lostNow,          \* dashboard: the lexemes of the line now arriving
                      \* that earlier readLoops held when they ended
    broken            \* dashboard: the records sent of which a readLoop
                      \* held more than white space when it ended

vars == <<pc, as7341_ok, ltr390_ok, tsl2591_ok, initCalls, currentGainIndex,
          as7341_gain, as7341_readings, channels, asOk, attempts, uv, als, ir,
          full, lux, nReads, nAdjusts, lastRead, lastAdjust, readGain, tslRaw,
          serialLine, serialOut, tftAs>>

flagVars == <<as7341_ok, ltr390_ok, tsl2591_ok>>

localVars == <<channels, asOk, attempts, uv, als, ir, full, lux>>

cycleVars == <<nReads, nAdjusts, lastRead, lastAdjust, readGain, tslRaw>>

\* The dashboard's variables, and all variables of the two programs.
dashVars == <<txMsgs, txTail, rxStream, buffer, data, dpc, nLines, nSetData,
              lostNow, broken>>

allVars == <<vars, dashVars>>

Zeros == [i \in 1..8 |-> 0]

Sensors == {"as7341", "ltr390", "tsl2591"}

NoReads == [s \in Sensors |-> 0]

\* The TSL2591 has not been read in this loop().
NoTsl == [lum |-> -1, lux |-> Fin(0)]

(***************************************************************************)
(* Serial.print and Serial.println.                                        *)
(***************************************************************************)
SerialPrint(line, toks) == line \o toks

\* The lines after println: the pending tokens, with toks, become a line.
SerialPrintln(out, line, toks) == Append(out, SerialPrint(line, toks))

\* Serial.print(float): two decimals for a finite value, the bare words
\* nan and inf otherwise.
PrintFloat(x) ==
    IF isnan(x) THEN Bare("nan")
    ELSE IF x.cls \in {"pinf", "ninf"} THEN Bare("inf")
    ELSE Flt(x)

(***************************************************************************)
(* setup(): the boot lines and the I2C scan, the three sensor             *)
(* initialisations and the readiness summary.  Init is the state when      *)
(* setup() is entered.                                                     *)
(***************************************************************************)
Init ==
    /\ pc = "setup"
    /\ as7341_ok = FALSE
    /\ ltr390_ok = FALSE
    /\ tsl2591_ok = FALSE
    /\ initCalls = [s \in Sensors |-> 0]
    /\ currentGainIndex = InitialGainIndex
    /\ as7341_gain = -1
    /\ as7341_readings = Zeros
    /\ channels = Zeros
    /\ asOk = FALSE
    /\ attempts = 0
    /\ uv = 0
    /\ als = 0
    /\ ir = 0
    /\ full = 0
    /\ lux = Fin(0)
    /\ nReads = NoReads
    /\ nAdjusts = 0
    /\ lastRead = "none"
    /\ lastAdjust = "none"
    /\ readGain = -1
    /\ tslRaw = NoTsl
    /\ serialLine = <<>>
    /\ serialOut = <<>>
    /\ tftAs = ""

StatusLine(s) == <<<<"status", Str(s)>>>>

ErrorLine(s) == <<<<"error", Str(s)>>>>

\* Serial.print(i, HEX) for an I2C address: upper case, no leading zero.
HexDigit ==
    <<"1", "2", "3", "4", "5", "6", "7", "8", "9", "A", "B", "C", "D", "E",
      "F">>

Hex(i) ==
    IF i < 16 THEN HexDigit[i]
    ELSE HexDigit[i \div 16] \o (IF i % 16 = 0 THEN "0" ELSE HexDigit[i % 16])

\* The sets of addresses that can answer the scan: none, the three sensors
\* (0x29, 0x39, 0x53), or a single device at 0x0A.
ScanResults == {{}, {41, 57, 83}, {10}}

\* scanI2C(): the lines it writes when the addresses in found answer, in
\* rising order of the address.
RECURSIVE DeviceLines(_)
DeviceLines(found) ==
    LET answering == found \cap 1..126
    IN  IF answering = {} THEN <<>>
        ELSE LET i == CHOOSE a \in answering : \A b \in answering : a <= b
             IN  << << <<"i2c_device", Str("0x" \o Hex(i))>> >> >>
                 \o DeviceLines(answering \ {i})

scanI2C(found) ==
    << << <<"i2c_scan", Str("starting")>> >> >>
    \o DeviceLines(found)
    \o << << <<"i2c_devices_found", Num(Cardinality(found \cap 1..126))>> >> >>

\* setup() up to the AS7341: the boot line, the I2C bus and its scan, the
\* display.
SetupBegin ==
    /\ pc = "setup"
    /\ \E found \in ScanResults :
        serialOut' =
          serialOut
          \o << << <<"status", Str("boot")>>, <<"fw", Str(FW_VERSION)>> >>,
                StatusLine("i2c_initialized") >>
          \o scanI2C(found)
          \o << StatusLine("init_tft") >>
    /\ pc' = "init_as7341"
    /\ UNCHANGED <<flagVars, initCalls, currentGainIndex, as7341_gain,
                   as7341_readings, localVars, cycleVars, serialLine, tftAs>>

InitAS7341 ==
    /\ pc = "init_as7341"
    /\ \E ok \in BOOLEAN :
        /\ as7341_ok' = ok
        /\ initCalls' = [initCalls EXCEPT !["as7341"] = @ + 1]
        /\ as7341_gain' = IF ok THEN currentGainIndex ELSE as7341_gain
        /\ serialOut' =
             SerialPrintln(
               SerialPrintln(serialOut, serialLine, StatusLine("init_as7341")),
               <<>>,
               IF ok THEN StatusLine("as7341_ok")
                     ELSE ErrorLine("as7341_not_found"))
        /\ tftAs' = IF ok THEN "OK" ELSE "FAIL"
    /\ pc' = "init_ltr390"
    /\ UNCHANGED <<ltr390_ok, tsl2591_ok, currentGainIndex, as7341_readings,
                   localVars, cycleVars, serialLine>>

InitLTR390 ==
    /\ pc = "init_ltr390"
    /\ \E ok \in BOOLEAN :
        /\ ltr390_ok' = ok
        /\ initCalls' = [initCalls EXCEPT !["ltr390"] = @ + 1]
        /\ serialOut' =
             SerialPrintln(
               SerialPrintln(serialOut, serialLine, StatusLine("init_ltr390")),
               <<>>,
               IF ok THEN StatusLine("ltr390_ok")
                     ELSE ErrorLine("ltr390_not_found"))
    /\ pc' = "init_tsl2591"
    /\ UNCHANGED <<as7341_ok, tsl2591_ok, currentGainIndex, as7341_gain,
                   as7341_readings, localVars, cycleVars, serialLine, tftAs>>

InitTSL2591 ==
    /\ pc = "init_tsl2591"
    /\ \E ok \in BOOLEAN :
        /\ tsl2591_ok' = ok
        /\ initCalls' = [initCalls EXCEPT !["tsl2591"] = @ + 1]
        /\ serialOut' =
             SerialPrintln(
               SerialPrintln(serialOut, serialLine, StatusLine("init_tsl2591")),
               <<>>,
               IF ok THEN StatusLine("tsl2591_ok")
                     ELSE ErrorLine("tsl2591_not_found"))
    /\ pc' = "boot_ready"
    /\ UNCHANGED <<as7341_ok, ltr390_ok, currentGainIndex, as7341_gain,
                   as7341_readings, localVars, cycleVars, serialLine, tftAs>>

\* Mutant: the summary prints the LTR390 flag under the tsl2591 key.
ReadyLine_Swapped ==
    << <<"status", Str("ready")>>,
       <<"as7341", Bool(as7341_ok)>>,
       <<"ltr390", Bool(ltr390_ok)>>,
       <<"tsl2591", Bool(ltr390_ok)>> >>

ReadyLine ==
    << <<"status", Str("ready")>>,
       <<"as7341", Bool(as7341_ok)>>,
       <<"ltr390", Bool(ltr390_ok)>>,
       <<"tsl2591", Bool(tsl2591_ok)>> >>

BootReady ==
    /\ pc = "boot_ready"
    /\ serialOut' = SerialPrintln(serialOut, serialLine, ReadyLine)
    /\ pc' = "loop"
    /\ UNCHANGED <<flagVars, initCalls, currentGainIndex, as7341_gain,
                   as7341_readings, localVars, cycleVars, serialLine, tftAs>>


(***************************************************************************)
(* adjustGainIfNeeded(channels), on gain index g: the new index and the    *)
(* value returned.  maxVal is found by the scan of the eight channels.     *)
(***************************************************************************)
RECURSIVE MaxScan(_, _, _)
MaxScan(ch, i, maxVal) ==
    IF i > 8 THEN maxVal
    ELSE MaxScan(ch, i + 1, IF ch[i] > maxVal THEN ch[i] ELSE maxVal)

\* minVal, found by the same scan (computed by the code, used by nothing).
RECURSIVE MinScan(_, _, _)
MinScan(ch, i, minVal) ==
    IF i > 8 THEN minVal
    ELSE MinScan(ch, i + 1, IF ch[i] < minVal THEN ch[i] ELSE minVal)

\* Mutant: the floor test written g >= 0.
adjustGainIfNeeded_FloorInclusive(g, ch) ==
    LET maxVal == MaxScan(ch, 1, 0)
    IN  IF maxVal >= SATURATION_THRESHOLD /\ g >= 0
          THEN [gain |-> g - 1, changed |-> TRUE]
        ELSE IF maxVal < LOW_SIGNAL_THRESHOLD /\ g < NUM_GAINS - 1
          THEN [gain |-> g + 1, changed |-> TRUE]
        ELSE [gain |-> g, changed |-> FALSE]

\* Mutant: the ceiling test written g < NUM_GAINS.
adjustGainIfNeeded_CeilingOff(g, ch) ==
    LET maxVal == MaxScan(ch, 1, 0)
    IN  IF maxVal >= SATURATION_THRESHOLD /\ g > 0
          THEN [gain |-> g - 1, changed |-> TRUE]
        ELSE IF maxVal < LOW_SIGNAL_THRESHOLD /\ g < NUM_GAINS
          THEN [gain |-> g + 1, changed |-> TRUE]
        ELSE [gain |-> g, changed |-> FALSE]

\* Mutant: the low-signal test made on minVal instead of maxVal.
adjustGainIfNeeded_MinVal(g, ch) ==
    LET maxVal == MaxScan(ch, 1, 0)
        minVal == MinScan(ch, 1, 65535)
    IN  IF maxVal >= SATURATION_THRESHOLD /\ g > 0
          THEN [gain |-> g - 1, changed |-> TRUE]
        ELSE IF minVal < LOW_SIGNAL_THRESHOLD /\ g < NUM_GAINS - 1
          THEN [gain |-> g + 1, changed |-> TRUE]
        ELSE [gain |-> g, changed |-> FALSE]

\* Mutant: the saturation branch without its floor test.
adjustGainIfNeeded_NoFloor(g, ch) ==
    LET maxVal == MaxScan(ch, 1, 0)
    IN  IF maxVal >= SATURATION_THRESHOLD
          THEN [gain |-> g - 1, changed |-> TRUE]
        ELSE IF maxVal < LOW_SIGNAL_THRESHOLD /\ g < NUM_GAINS - 1
          THEN [gain |-> g + 1, changed |-> TRUE]
        ELSE [gain |-> g, changed |-> FALSE]

\* Mutant: saturation tested with > instead of >=.
adjustGainIfNeeded_StrictSat(g, ch) ==
    LET maxVal == MaxScan(ch, 1, 0)
    IN  IF maxVal > SATURATION_THRESHOLD /\ g > 0
          THEN [gain |-> g - 1, changed |-> TRUE]
        ELSE IF maxVal < LOW_SIGNAL_THRESHOLD /\ g < NUM_GAINS - 1
          THEN [gain |-> g + 1, changed |-> TRUE]
        ELSE [gain |-> g, changed |-> FALSE]

adjustGainIfNeeded(g, ch) ==
    LET maxVal == MaxScan(ch, 1, 0)
    IN  IF maxVal >= SATURATION_THRESHOLD /\ g > 0
          THEN [gain |-> g - 1, changed |-> TRUE]
        ELSE IF maxVal < LOW_SIGNAL_THRESHOLD /\ g < NUM_GAINS - 1
          THEN [gain |-> g + 1, changed |-> TRUE]
        ELSE [gain |-> g, changed |-> FALSE]

(***************************************************************************)
(* loop().                                                                 *)
(***************************************************************************)
\* Mutant: the gain search entered whatever the readiness flag says.
EntryPc_Always == "read"

\* if (as7341_ok): the gain search is entered only when the AS7341 is
\* available.
EntryPc == IF as7341_ok THEN "read" ELSE "uv"

\* Mutant: the gain index set back to its start value on every entry.
LoopBegin_ResetGain ==
    /\ pc = "loop"
    /\ channels' = Zeros
    /\ asOk' = FALSE
    /\ attempts' = 0
    /\ uv' = 0
    /\ als' = 0
    /\ ir' = 0
    /\ full' = 0
    /\ lux' = Fin(0)
    /\ nReads' = NoReads
    /\ nAdjusts' = 0
    /\ lastRead' = "none"
    /\ lastAdjust' = "none"
    /\ readGain' = -1
    /\ tslRaw' = NoTsl
    /\ serialOut' = <<>>
    /\ currentGainIndex' = InitialGainIndex
    /\ as7341_gain' = IF as7341_ok THEN InitialGainIndex ELSE as7341_gain
    /\ pc' = IF as7341_ok THEN "read" ELSE "uv"
    /\ UNCHANGED <<flagVars, initCalls, as7341_readings, serialLine, tftAs>>

\* Entry: the locals are declared.
LoopBegin ==
    /\ pc = "loop"
    /\ channels' = Zeros
    /\ asOk' = FALSE
    /\ attempts' = 0
    /\ uv' = 0
    /\ als' = 0
    /\ ir' = 0
    /\ full' = 0
    /\ lux' = Fin(0)
    /\ nReads' = NoReads
    /\ nAdjusts' = 0
    /\ lastRead' = "none"
    /\ lastAdjust' = "none"
    /\ readGain' = -1
    /\ tslRaw' = NoTsl
    /\ serialOut' = <<>>
    /\ pc' = EntryPc
    /\ UNCHANGED <<flagVars, initCalls, currentGainIndex, as7341_gain,
                   as7341_readings, serialLine, tftAs>>

\* Mutant: a failed read clears the readiness flag.
SpectralRead_Downgrade ==
    /\ pc = "read"
    /\ \E ok \in BOOLEAN, r \in Readings :
        /\ asOk' = ok
        /\ as7341_ok' = ok
        /\ as7341_readings' = IF ok THEN r ELSE as7341_readings
        /\ channels' = IF ok THEN r ELSE channels
        /\ lastRead' = IF ok THEN "ok" ELSE "fail"
    /\ attempts' = attempts + 1
    /\ nReads' = [nReads EXCEPT !["as7341"] = @ + 1]
    /\ readGain' = as7341_gain
    /\ pc' = "while"
    /\ UNCHANGED <<ltr390_ok, tsl2591_ok, initCalls, currentGainIndex,
                   as7341_gain, uv, als, ir, full, lux, nAdjusts, lastAdjust,
                   tslRaw, serialLine, serialOut, tftAs>>

\* The body of the do-while: one readAllChannels(), the copy of F1..F8 when
\* it succeeded, and attempts++.
SpectralRead ==
    /\ pc = "read"
    /\ \E ok \in BOOLEAN, r \in Readings :
        /\ asOk' = ok
        /\ as7341_readings' = IF ok THEN r ELSE as7341_readings
        /\ channels' = IF ok THEN r ELSE channels
        /\ lastRead' = IF ok THEN "ok" ELSE "fail"
    /\ attempts' = attempts + 1
    /\ nReads' = [nReads EXCEPT !["as7341"] = @ + 1]
    /\ readGain' = as7341_gain
    /\ pc' = "while"
    /\ UNCHANGED <<flagVars, initCalls, currentGainIndex, as7341_gain, uv,
                   als, ir, full, lux, nAdjusts, lastAdjust, tslRaw,
                   serialLine, serialOut, tftAs>>

\* Mutant: attempts <= MAX_ATTEMPTS.
ContinueSearch_Inclusive(changed, att) == changed /\ att <= MAX_ATTEMPTS

\* Mutant: the search given up one attempt early.
ContinueSearch_StopEarly(changed, att) == changed /\ att < MAX_ATTEMPTS - 1

\* What is left of the do-while condition once asOk holds and
\* adjustGainIfNeeded has returned.
ContinueSearch(changed, att) == changed /\ att < MAX_ATTEMPTS

\* Mutant: the condition written
\*   adjustGainIfNeeded(channels) && asOk && attempts < MAX_ATTEMPTS.
LoopCondition_AdjustFirst ==
    /\ pc = "while"
    /\ LET a == adjustGainIfNeeded(currentGainIndex, channels)
       IN  /\ currentGainIndex' = a.gain
           /\ as7341_gain' = IF a.changed THEN a.gain ELSE as7341_gain
           /\ nAdjusts' = nAdjusts + 1
           /\ lastAdjust' = IF a.changed THEN "Changed" ELSE "Unchanged"
           /\ pc' = IF a.changed /\ asOk /\ attempts < MAX_ATTEMPTS
                      THEN "read" ELSE "uv"
    /\ UNCHANGED <<flagVars, initCalls, as7341_readings, localVars, nReads,
                   lastRead, readGain, tslRaw, serialLine, serialOut, tftAs>>

\* The condition of the do-while,
\*   asOk && adjustGainIfNeeded(channels) && attempts < MAX_ATTEMPTS,
\* evaluated left to right: adjustGainIfNeeded runs whenever asOk holds.
LoopCondition ==
    /\ pc = "while"
    /\ IF asOk
         THEN LET a == adjustGainIfNeeded(currentGainIndex, channels)
              IN  /\ currentGainIndex' = a.gain
                  /\ as7341_gain' = IF a.changed THEN a.gain ELSE as7341_gain
                  /\ nAdjusts' = nAdjusts + 1
                  /\ lastAdjust' = IF a.changed THEN "Changed" ELSE "Unchanged"
                  /\ pc' = IF ContinueSearch(a.changed, attempts)
                             THEN "read" ELSE "uv"
         ELSE /\ pc' = "uv"
              /\ UNCHANGED <<currentGainIndex, as7341_gain, nAdjusts,
                             lastAdjust>>
    /\ UNCHANGED <<flagVars, initCalls, as7341_readings, localVars, nReads,
                   lastRead, readGain, tslRaw, serialLine, serialOut, tftAs>>

\* Mutant: the UV read not guarded by the readiness flag.
ReadUV_Unguarded ==
    /\ pc = "uv"
    /\ \E u \in UvValues :
        /\ uv' = u
        /\ nReads' = [nReads EXCEPT !["ltr390"] = @ + 1]
    /\ pc' = "tsl"
    /\ UNCHANGED <<flagVars, initCalls, currentGainIndex, as7341_gain,
                   as7341_readings, channels, asOk, attempts, als, ir, full,
                   lux, nAdjusts, lastRead, lastAdjust, readGain, tslRaw,
                   serialLine, serialOut, tftAs>>

\* LTR390: uv and als are 0 unless the sensor is available; als is not read.
ReadUV ==
    /\ pc = "uv"
    /\ IF ltr390_ok
         THEN \E u \in UvValues :
                /\ uv' = u
                /\ nReads' = [nReads EXCEPT !["ltr390"] = @ + 1]
         ELSE UNCHANGED <<uv, nReads>>
    /\ pc' = "tsl"
    /\ UNCHANGED <<flagVars, initCalls, currentGainIndex, as7341_gain,
                   as7341_readings, channels, asOk, attempts, als, ir, full,
                   lux, nAdjusts, lastRead, lastAdjust, readGain, tslRaw,
                   serialLine, serialOut, tftAs>>

\* Mutant: the lux value stored without the isnan test.
ReadTSL_NoSanitize ==
    /\ pc = "tsl"
    /\ IF tsl2591_ok
         THEN \E lum \in LumValues, l \in LuxValues :
                /\ ir' = lum \div 65536
                /\ full' = lum % 65536
                /\ lux' = l
                /\ nReads' = [nReads EXCEPT !["tsl2591"] = @ + 1]
                /\ tslRaw' = [lum |-> lum, lux |-> l]
         ELSE UNCHANGED <<ir, full, lux, nReads, tslRaw>>
    /\ pc' = "emit"
    /\ UNCHANGED <<flagVars, initCalls, currentGainIndex, as7341_gain,
                   as7341_readings, channels, asOk, attempts, uv, als,
                   nAdjusts, lastRead, lastAdjust, readGain, serialLine,
                   serialOut, tftAs>>

\* TSL2591: the 32-bit luminosity is split into ir (high half) and full
\* (low half); a NaN lux becomes 0.0.
ReadTSL ==
    /\ pc = "tsl"
    /\ IF tsl2591_ok
         THEN \E lum \in LumValues, l \in LuxValues :
                /\ ir' = lum \div 65536
                /\ full' = lum % 65536
                /\ lux' = IF isnan(l) THEN Fin(0) ELSE l
                /\ nReads' = [nReads EXCEPT !["tsl2591"] = @ + 1]
                /\ tslRaw' = [lum |-> lum, lux |-> l]
         ELSE UNCHANGED <<ir, full, lux, nReads, tslRaw>>
    /\ pc' = "emit"
    /\ UNCHANGED <<flagVars, initCalls, currentGainIndex, as7341_gain,
                   as7341_readings, channels, asOk, attempts, uv, als,
                   nAdjusts, lastRead, lastAdjust, readGain, serialLine,
                   serialOut, tftAs>>

\* Mutant: F1..F8 printed whether or not the read succeeded.
TelemetryTokens_AlwaysSpectral ==
    << <<"fw", Str(FW_VERSION)>>,
       <<"gain", Str(gainNames[currentGainIndex + 1])>> >>
    \o [i \in 1..8 |-> <<channelKeys[i], Num(channels[i])>>]
    \o << <<"UV", Num(uv)>>,
          <<"ALS", Num(als)>>,
          <<"TSL_Lux", PrintFloat(lux)>>,
          <<"TSL_IR", Num(ir)>>,
          <<"TSL_Full", Num(full)>> >>

\* The tokens of the JSON output, in the order they are printed.
TelemetryTokens ==
    << <<"fw", Str(FW_VERSION)>>,
       <<"gain", Str(gainNames[currentGainIndex + 1])>> >>
    \o (IF asOk THEN [i \in 1..8 |-> <<channelKeys[i], Num(channels[i])>>]
                ELSE <<>>)
    \o << <<"UV", Num(uv)>>,
          <<"ALS", Num(als)>>,
          <<"TSL_Lux", PrintFloat(lux)>>,
          <<"TSL_IR", Num(ir)>>,
          <<"TSL_Full", Num(full)>> >>

\* Mutant: the closing brace written with print, not println.
EmitRecord_NoNewline ==
    /\ pc = "emit"
    /\ serialLine' = SerialPrint(serialLine, TelemetryTokens)
    /\ pc' = "tft"
    /\ UNCHANGED <<flagVars, initCalls, currentGainIndex, as7341_gain,
                   as7341_readings, localVars, cycleVars, serialOut, tftAs>>

\* The JSON output: a run of Serial.print closed by one Serial.println.
EmitRecord ==
    /\ pc = "emit"
    /\ serialOut' = SerialPrintln(serialOut, serialLine, TelemetryTokens)
    /\ serialLine' = <<>>
    /\ pc' = "tft"
    /\ UNCHANGED <<flagVars, initCalls, currentGainIndex, as7341_gain,
                   as7341_readings, localVars, cycleVars, tftAs>>

\* The display update and the two delays that end loop().
UpdateTFT ==
    /\ pc = "tft"
    /\ tftAs' = IF asOk THEN "OK" ELSE "ERR"
    /\ pc' = "loop"
    /\ UNCHANGED <<flagVars, initCalls, currentGainIndex, as7341_gain,
                   as7341_readings, localVars, cycleVars, serialLine,
                   serialOut>>

(***************************************************************************)
(* The serial port between the two programs.  Text is a sequence of        *)
(* lexemes: the punctuation of JSON, white space, the line feed, quoted    *)
(* keys, and the value tokens Serial.print writes.                         *)
(***************************************************************************)
P(c) == [t |-> "p", v |-> c]
Ws(c) == [t |-> "ws", v |-> c]
Nl == [t |-> "nl", v |-> "\n"]
Key(k) == [t |-> "key", v |-> k]
Word(w) == [t |-> "word", v |-> w]

IsP(x, c) == x.t = "p" /\ x.v = c

\* The text of the pairs of a line, a comma between two pairs.
RECURSIVE PairsText(_)
PairsText(line) ==
    IF Len(line) = 0 THEN <<>>
    ELSE <<Key(line[1][1]), P(":"), line[1][2]>>
         \o (IF Len(line) = 1 THEN <<>> ELSE <<P(",")>>)
         \o PairsText(Tail(line))

\* The text of one record as loop() writes it: the braces around its pairs.
RecordText(line) == <<P("{")>> \o PairsText(line) \o <<P("}")>>

\* Serial.println ends a line with a carriage return and a line feed.
LineEnd == <<Ws("\r"), Nl>>

\* A message is one line of text on the port; line holds its pairs when the
\* text is a record of the device and is empty otherwise.
\* isRecord tells whether the text is a JSON object: Serial.print writes a
\* float that is not finite as a bare word, which JSON has no literal for.
RecordMsg(line) ==
    [line |-> line, text |-> RecordText(line),
     isRecord |-> \A i \in 1..Len(line) : line[i][2].t # "bare"]

PaddedMsg(line) ==
    [line |-> line, text |-> <<Ws(" ")>> \o RecordText(line) \o <<Ws(" ")>>,
     isRecord |-> TRUE]

TextMsg(text) == [line |-> <<>>, text |-> text, isRecord |-> FALSE]

\* The lines the device can send in this model.  The first two are the
\* records {"F1":10} and {"UV":5}; the third overrides F1, carries a float
\* and a key the dashboard's state does not start with; the fourth is a
\* record of the device whose lux is infinite; the fifth is a line of plain
\* text; the sixth is a record that lost its closing brace; the seventh is
\* a record with white space around it.
MsgTable ==
    << RecordMsg(<< <<"F1", Num(10)>> >>),
       RecordMsg(<< <<"UV", Num(5)>> >>),
       RecordMsg(<< <<"F1", Num(7)>>, <<"TSL_Lux", Flt(Fin(250))>>,
                    <<"gain", Str("64x")>> >>),
       RecordMsg(<< <<"UV", Num(9)>>, <<"TSL_Lux", PrintFloat(PosInf)>> >>),
       TextMsg(<<Word("AS7341"), Ws(" "), Word("ready")>>),
       TextMsg(<<P("{"), Key("F1"), P(":"), Num(99)>>),
       PaddedMsg(<< <<"UV", Num(0)>> >>) >>

\* How many lines the device sends.
MaxMsgs == 2

\* What the device can have written after its last line end when the
\* dashboard stops reading: nothing, or a whole record whose line end has
\* not been written yet.
TailTable ==
    << <<>>,
       RecordText(<< <<"F1", Num(42)>> >>) >>

\* All the text the device sends: each message and its line end.
RECURSIVE WireText(_)
WireText(msgs) ==
    IF Len(msgs) = 0 THEN <<>>
    ELSE msgs[1].text \o LineEnd \o WireText(Tail(msgs))

(***************************************************************************)
(* The dashboard (App.tsx): its state and readLoop.                        *)
(***************************************************************************)
\* useState<SpectralData>: thirteen numeric fields, all zero.
InitialKeys ==
    {"F1", "F2", "F3", "F4", "F5", "F6", "F7", "F8",
     "UV", "ALS", "TSL_Lux", "TSL_IR", "TSL_Full"}

InitialData == [k \in InitialKeys |-> Num(0)]

\* The dashboard before connectSerial, the device having sent msgs and,
\* after them, tail.
DashStart(msgs, tail) ==
    /\ txMsgs = msgs
    /\ txTail = tail
    /\ rxStream = WireText(msgs) \o tail
    /\ buffer = <<>>
    /\ data = InitialData
    /\ dpc = "idle"
    /\ nLines = 0
    /\ nSetData = 0
    /\ lostNow = 0
    /\ broken = {}

\* The dashboard when the page is loaded, the device at rest beside it and
\* up to MaxMsgs lines of its output waiting on the port, the last of them
\* with or without its line end.
DashInit ==
    /\ Init
    /\ \E n \in 0..MaxMsgs : \E idx \in [1..n -> 1..Len(MsgTable)] :
         \E t \in 1..Len(TailTable) :
           /\ Len(TailTable[t]) > 0 => n < MaxMsgs
           /\ DashStart([i \in 1..n |-> MsgTable[idx[i]]], TailTable[t])

\* String.split("\n"): the pieces between the line feeds, at least one.
RECURSIVE Split(_)
Split(text) ==
    LET feeds == {i \in 1..Len(text) : text[i].t = "nl"}
    IN  IF feeds = {} THEN <<text>>
        ELSE LET i == CHOOSE f \in feeds : \A g \in feeds : f <= g
             IN  <<SubSeq(text, 1, i - 1)>>
                 \o Split(SubSeq(text, i + 1, Len(text)))

\* String.trim(): the text without its leading and trailing white space.
Trim(text) ==
    LET solid == {i \in 1..Len(text) : text[i].t \notin {"ws", "nl"}}
    IN  IF solid = {} THEN <<>>
        ELSE SubSeq(text, CHOOSE a \in solid : \A b \in solid : a <= b,
                          CHOOSE a \in solid : \A b \in solid : a >= b)

startsWith(text, c) == Len(text) > 0 /\ IsP(text[1], c)

endsWith(text, c) == Len(text) > 0 /\ IsP(text[Len(text)], c)

\* The JavaScript value of a value token: 250.00 and 250 are one number.
JsValue(tok) == IF tok.t = "flt" THEN Num(tok.v) ELSE tok

\* JSON.parse of a text that starts and ends with a brace.  White space
\* between tokens is skipped; the members are key : value separated by
\* commas; a value is a string, a number or a boolean; of two members with
\* one key the later wins.  ok is FALSE where JSON.parse throws.
JSONparse(text) ==
    LET inner == SubSeq(text, 2, Len(text) - 1)
        b == SelectSeq(inner, LAMBDA x : x.t # "ws")
        n == (Len(b) + 1) \div 4
        member(j) ==
            /\ b[4 * j - 3].t = "key"
            /\ IsP(b[4 * j - 2], ":")
            /\ b[4 * j - 1].t \in {"str", "num", "flt", "bool"}
            /\ j < n => IsP(b[4 * j], ",")
        ok == \/ Len(b) = 0
              \/ /\ Len(b) % 4 = 3
                 /\ \A j \in 1..n : member(j)
        keys == {b[4 * j - 3].v : j \in 1..n}
        last(k) == CHOOSE j \in 1..n :
                       /\ b[4 * j - 3].v = k
                       /\ \A i \in 1..n : b[4 * i - 3].v = k => i <= j
    IN  IF ~ok THEN [ok |-> FALSE, obj |-> <<>>]
        ELSE IF Len(b) = 0 THEN [ok |-> TRUE, obj |-> <<>>]
        ELSE [ok |-> TRUE,
              obj |-> [k \in keys |-> JsValue(b[4 * last(k) - 1])]]

\* A merge that forgets the state: setData(json).
Merge_Replace(prev, json) == json

\* ({ ...prev, ...json }): the fields of json over those of prev.
Merge(prev, json) ==
    [k \in DOMAIN prev \cup DOMAIN json |->
        IF k \in DOMAIN json THEN json[k] ELSE prev[k]]

\* The body of the for loop without its try and catch: what JSON.parse
\* throws leaves the loop.
ProcessLine_NoCatch(prev, line) ==
    LET cleanLine == Trim(line)
    IN  IF startsWith(cleanLine, "{") /\ endsWith(cleanLine, "}")
        THEN LET json == JSONparse(cleanLine)
             IN  IF json.ok
                 THEN [data |-> Merge(prev, json.obj), thrown |-> FALSE,
                       calls |-> 1]
                 ELSE [data |-> prev, thrown |-> TRUE, calls |-> 0]
        ELSE [data |-> prev, thrown |-> FALSE, calls |-> 0]

\* The body of the for loop for one line: the state after it, whether an
\* exception leaves the body, and the calls of setData it made.  The catch
\* inside the loop takes what JSON.parse throws, so none does.
ProcessLine(prev, line) ==
    LET cleanLine == Trim(line)
    IN  IF startsWith(cleanLine, "{") /\ endsWith(cleanLine, "}")
        THEN LET json == JSONparse(cleanLine)
             IN  IF json.ok
                 THEN [data |-> Merge(prev, json.obj), thrown |-> FALSE,
                       calls |-> 1]
                 ELSE [data |-> prev, thrown |-> FALSE, calls |-> 0]
        ELSE [data |-> prev, thrown |-> FALSE, calls |-> 0]

\* for (const line of lines): the lines in order, up to an exception.
RECURSIVE ProcessLines(_, _)
ProcessLines(prev, lines) ==
    IF Len(lines) = 0 THEN [data |-> prev, thrown |-> FALSE, calls |-> 0]
    ELSE LET r == ProcessLine(prev, lines[1])
         IN  IF r.thrown THEN r
             ELSE LET rest == ProcessLines(r.data, Tail(lines))
                  IN  [rest EXCEPT !.calls = @ + r.calls]

\* The lines whose line feed has been delivered.
Delivered == Len(txMsgs) - Cardinality({i \in 1..Len(rxStream) :
                                          rxStream[i].t = "nl"})

\* connectSerial(): the port opens and readLoop starts with an empty buffer
\* of its own, on the first connection and on every one after a
\* disconnection; what the readLoop before it held of an unfinished line
\* is gone with it.
connectSerial ==
    /\ dpc \in {"idle", "closed"}
    /\ buffer' = <<>>
    /\ dpc' = "reading"
    /\ lostNow' = lostNow + Len(buffer)
    /\ broken' = IF /\ \E i \in 1..Len(buffer) : buffer[i].t # "ws"
                    /\ Delivered < Len(txMsgs)
                    /\ txMsgs[Delivered + 1].isRecord
                 THEN broken \cup {Delivered + 1}
                 ELSE broken
    /\ UNCHANGED <<txMsgs, txTail, rxStream, data, nLines, nSetData>>

\* A turn of the while loop that forgets what it kept: buffer = value.
ReaderRead_NoBuffer ==
    /\ dpc = "reading"
    /\ \E n \in 1..Len(rxStream) :
        \E lines \in {Split(SubSeq(rxStream, 1, n))} :
        \E r \in {ProcessLines(data, SubSeq(lines, 1, Len(lines) - 1))} :
            /\ rxStream' = SubSeq(rxStream, n + 1, Len(rxStream))
            /\ buffer' = lines[Len(lines)]
            /\ data' = r.data
            /\ dpc' = IF r.thrown THEN "closed" ELSE "reading"
            /\ nLines' = nLines + Len(lines) - 1
            /\ nSetData' = nSetData + r.calls
            /\ lostNow' = IF Len(lines) > 1 THEN 0 ELSE lostNow
    /\ UNCHANGED <<txMsgs, txTail, broken>>

\* One turn of the while loop: reader.read() delivers a chunk of the text,
\* of any length (the first n lexemes waiting); lines is the buffer with
\* the chunk, split; its complete lines are processed, with result r, and
\* the rest is kept.  An exception that leaves the for loop ends readLoop.
ReaderRead ==
    /\ dpc = "reading"
    /\ \E n \in 1..Len(rxStream) :
        \E lines \in {Split(buffer \o SubSeq(rxStream, 1, n))} :
        \E r \in {ProcessLines(data, SubSeq(lines, 1, Len(lines) - 1))} :
            /\ rxStream' = SubSeq(rxStream, n + 1, Len(rxStream))
            /\ buffer' = lines[Len(lines)]
            /\ data' = r.data
            /\ dpc' = IF r.thrown THEN "closed" ELSE "reading"
            /\ nLines' = nLines + Len(lines) - 1
            /\ nSetData' = nSetData + r.calls
            /\ lostNow' = IF Len(lines) > 1 THEN 0 ELSE lostNow
    /\ UNCHANGED <<txMsgs, txTail, broken>>

\* disconnectSerial(): the reader is cancelled, read() answers done and
\* readLoop leaves the while loop.
disconnectSerial ==
    /\ dpc = "reading"
    /\ dpc' = "closed"
    /\ UNCHANGED <<txMsgs, txTail, rxStream, buffer, data, nLines, nSetData,
                   lostNow, broken>>

\* No step of the dashboard touches the device.
DashNext ==
    \/ connectSerial /\ UNCHANGED vars
    \/ ReaderRead /\ UNCHANGED vars
    \/ disconnectSerial /\ UNCHANGED vars

\* loop() after setup(); no step of the device touches the dashboard.
Next ==
    \/ SetupBegin /\ UNCHANGED dashVars
    \/ InitAS7341 /\ UNCHANGED dashVars
    \/ InitLTR390 /\ UNCHANGED dashVars
    \/ InitTSL2591 /\ UNCHANGED dashVars
    \/ BootReady /\ UNCHANGED dashVars
    \/ LoopBegin /\ UNCHANGED dashVars
    \/ SpectralRead /\ UNCHANGED dashVars
    \/ LoopCondition /\ UNCHANGED dashVars
    \/ ReadUV /\ UNCHANGED dashVars
    \/ ReadTSL /\ UNCHANGED dashVars
    \/ EmitRecord /\ UNCHANGED dashVars
    \/ UpdateTFT /\ UNCHANGED dashVars

\* The device alone: the dashboard stays as it is when the page is loaded,
\* with nothing on the port for it.
DeviceInit ==
    /\ Init
    /\ DashStart(<<>>, <<>>)

Spec == DeviceInit /\ [][Next]_allVars

\* The single thread of control keeps running, and every driver call
\* returns.
FairSpec == Spec /\ WF_allVars(Next)

\* The dashboard alone, reading what the device has sent.
DashSpec == DashInit /\ [][DashNext]_allVars

(***************************************************************************)
(* Reading the serial output.                                              *)
(***************************************************************************)
InitPcs == {"init_as7341", "init_ltr390", "init_tsl2591"}

BootPcs == {"setup"} \cup InitPcs \cup {"boot_ready"}

\* setup() has not yet initialised the AS7341.
BankPending == pc \in {"setup", "init_as7341"}

\* loop() has written its record and not yet returned.
Emitted == pc = "tft"

LastLine == serialOut[Len(serialOut)]

Keys(line) == {line[i][1] : i \in 1..Len(line)}

Count(line, k) == Cardinality({i \in 1..Len(line) : line[i][1] = k})

Value(line, k) == line[CHOOSE i \in 1..Len(line) : line[i][1] = k][2]

SpectralKeys == {"F1", "F2", "F3", "F4", "F5", "F6", "F7", "F8"}

AlwaysKeys == {"fw", "gain", "UV", "ALS", "TSL_Lux", "TSL_IR", "TSL_Full"}

Abs(n) == IF n < 0 THEN -n ELSE n

\* A step in which adjustGainIfNeeded was called.
AdjustStep == nAdjusts' = nAdjusts + 1

(***************************************************************************)
(* C1: GainIndex is always in 0..10; a call of adjust that returns Changed *)
(* moves it by exactly one step, a call that returns Unchanged leaves it,  *)
(* and no step of the program moves it by more than one.                   *)
(***************************************************************************)
C1_GainStep ==
    /\ [](currentGainIndex \in 0..10)
    /\ [][ /\ Abs(currentGainIndex' - currentGainIndex) <= 1
           /\ AdjustStep /\ lastAdjust' = "Changed"
                => Abs(currentGainIndex' - currentGainIndex) = 1
           /\ AdjustStep /\ lastAdjust' = "Unchanged"
                => currentGainIndex' = currentGainIndex ]_vars

\* adjust has walked the index down to the floor.
C1_Witness == lastAdjust = "Changed" /\ currentGainIndex = 0 /\ nAdjusts = 5

\* The reference policy of the specification, on the largest channel value.
SetMax(ch) == CHOOSE m \in {ch[i] : i \in 1..8} : \A i \in 1..8 : ch[i] <= m

RefPolicy(g, ch) ==
    LET m == SetMax(ch)
    IN  CASE m >= 60000 /\ g > 0 -> <<g - 1, "Changed">>
          [] ~(m >= 60000 /\ g > 0) /\ m < 1000 /\ g < 10 -> <<g + 1, "Changed">>
          [] OTHER -> <<g, "Unchanged">>

(***************************************************************************)
(* C2: every call of adjust agrees with the reference policy on the        *)
(* maximum of the eight channels: down one step and Changed when           *)
(* maxVal >= 60000 and g > 0; else up one step and Changed when            *)
(* maxVal < 1000 and g < 10; else the index kept and Unchanged.            *)
(***************************************************************************)
C2_MatchesReference ==
    [][ AdjustStep =>
          <<currentGainIndex', lastAdjust'>> = RefPolicy(currentGainIndex, channels)
      ]_vars

\* adjust has judged a reading whose maximum is exactly 60000.
C2_Witness ==
    /\ lastAdjust = "Changed"
    /\ pc \in {"read", "uv"}
    /\ SetMax(channels) = 60000
    /\ currentGainIndex = 2

(***************************************************************************)
(* C3: a cycle makes at most 5 spectral reads and at most 5 calls of       *)
(* adjust, and the gain search, once entered, is left.                     *)
(***************************************************************************)
C3_BoundedSearch ==
    /\ [](nReads["as7341"] <= 5 /\ nAdjusts <= 5 /\ attempts <= 5)
    /\ (pc \in {"read", "while"} ~> pc = "uv")

\* adjust returned Changed on each of the five attempts.
C3_Witness ==
    /\ pc = "uv"
    /\ nReads["as7341"] = 5
    /\ nAdjusts = 5
    /\ lastAdjust = "Changed"
    /\ currentGainIndex = 10

(***************************************************************************)
(* C4: when adjust returns Changed on one of the first four attempts, the  *)
(* next thing loop() does is one more spectral read, followed by the       *)
(* evaluation of that reading, with nothing written in between; Scenario A *)
(* at index 5 gives index 4 and one further read.                          *)
(***************************************************************************)
C4_RereadAfterChanged ==
    [][ /\ (AdjustStep /\ lastAdjust' = "Changed" /\ attempts < 5)
             => /\ pc' = "read"
                /\ nReads' = nReads
                /\ serialOut' = serialOut /\ serialLine' = serialLine
        /\ pc = "read"
             => /\ nReads'["as7341"] = nReads["as7341"] + 1
                /\ pc' = "while"
                /\ nAdjusts' = nAdjusts
                /\ serialOut' = serialOut /\ serialLine' = serialLine
        /\ (AdjustStep /\ channels = ScenarioA /\ currentGainIndex = 5
              /\ attempts < 5)
             => /\ currentGainIndex' = 4
                /\ lastAdjust' = "Changed"
                /\ pc' = "read"
      ]_vars

\* Scenario A has been judged at index 5 and the re-read is about to start.
C4_Witness ==
    /\ pc = "read"
    /\ channels = ScenarioA
    /\ lastAdjust = "Changed"
    /\ currentGainIndex = 4
    /\ nReads["as7341"] = 1

(***************************************************************************)
(* C5: the record holds F1..F8, all or none, exactly when the AS7341 is    *)
(* Ready and the last spectral read of the cycle succeeded, and then the   *)
(* values are those of that read.                                          *)
(***************************************************************************)
C5_SpectralFields ==
    Emitted =>
      LET line == LastLine
      IN  /\ (SpectralKeys \subseteq Keys(line))
                <=> (as7341_ok /\ lastRead = "ok")
          /\ (SpectralKeys \cap Keys(line) # {})
                => /\ SpectralKeys \subseteq Keys(line)
                   /\ \A i \in 1..8 : Count(line, channelKeys[i]) = 1
                   /\ \A i \in 1..8 :
                        Value(line, channelKeys[i]) = Num(as7341_readings[i])

\* The first read succeeded, the re-read failed, and the record is out.
C5_Witness ==
    /\ Emitted
    /\ nReads["as7341"] = 2
    /\ nAdjusts = 1
    /\ lastRead = "fail"
    /\ channels = ScenarioA
    /\ SpectralKeys \cap Keys(LastLine) = {}

(***************************************************************************)
(* C6: the TSL_Lux value of every record is a finite number.               *)
(***************************************************************************)
C6_LuxFinite ==
    Emitted => /\ lux.cls = "fin"
               /\ Value(LastLine, "TSL_Lux").t = "flt"

(***************************************************************************)
(* C7: when the AS7341 failed at boot, no cycle reads it or calls adjust,  *)
(* every record omits F1..F8, and GainIndex stays 5 (gain "16x").          *)
(***************************************************************************)
C7_FailedBankUntouched ==
    (~BankPending /\ ~as7341_ok) =>
      /\ nReads["as7341"] = 0
      /\ nAdjusts = 0
      /\ lastRead = "none"
      /\ currentGainIndex = 5
      /\ Emitted => /\ SpectralKeys \cap Keys(LastLine) = {}
                    /\ Value(LastLine, "gain") = Str("16x")

\* The record of a cycle after the first one, the AS7341 having failed.
C7_Witness == Emitted /\ ~as7341_ok /\ tftAs = "ERR"

(***************************************************************************)
(* C8: each readiness flag is written once, by its own initialisation in   *)
(* setup(), and by nothing afterwards; a failed read leaves the flag set,  *)
(* and a sensor whose flag is clear is never read.                         *)
(***************************************************************************)
C8_ReadinessFrozen ==
    /\ [][ /\ pc # "init_as7341" => as7341_ok' = as7341_ok
           /\ pc # "init_ltr390" => ltr390_ok' = ltr390_ok
           /\ pc # "init_tsl2591" => tsl2591_ok' = tsl2591_ok
           /\ pc \notin InitPcs => initCalls' = initCalls ]_vars
    /\ [](pc \notin BootPcs => \A s \in Sensors : initCalls[s] = 1)
    /\ [](/\ nReads["as7341"] > 0 => as7341_ok
          /\ nReads["ltr390"] > 0 => ltr390_ok
          /\ nReads["tsl2591"] > 0 => tsl2591_ok)

\* The cycle before ended on a failed read, and the AS7341 is read again.
C8_Witness ==
    /\ as7341_ok
    /\ tftAs = "ERR"
    /\ pc = "while"
    /\ lastRead = "ok"

\* The eleven gain steps, 0.5x to 512x, by index.
C9_GainNames == <<"0.5x", "1x", "2x", "4x", "8x", "16x",
                  "32x", "64x", "128x", "256x", "512x">>

(***************************************************************************)
(* C9: every record holds fw, gain, UV, ALS, TSL_Lux, TSL_IR and TSL_Full  *)
(* once each; gain names the current GainIndex, ALS is 0, UV is 0 when the *)
(* LTR390 is not Ready, and the three TSL values are 0 when the TSL2591 is *)
(* not Ready.                                                              *)
(***************************************************************************)
C9_AlwaysFields ==
    Emitted =>
      LET line == LastLine
      IN  /\ \A k \in AlwaysKeys : Count(line, k) = 1
          /\ Keys(line) \subseteq AlwaysKeys \cup SpectralKeys
          /\ Value(line, "fw") = Str("2.0.1")
          /\ Value(line, "gain") = Str(C9_GainNames[currentGainIndex + 1])
          /\ Value(line, "ALS") = Num(0)
          /\ ~ltr390_ok => Value(line, "UV") = Num(0)
          /\ ~tsl2591_ok => /\ Value(line, "TSL_Lux") = Flt(Fin(0))
                            /\ Value(line, "TSL_IR") = Num(0)
                            /\ Value(line, "TSL_Full") = Num(0)

\* A record written at gain 64x with the LTR390 and the TSL2591 failed.
C9_Witness ==
    /\ Emitted
    /\ as7341_ok /\ ~ltr390_ok /\ ~tsl2591_ok
    /\ currentGainIndex = 7
    /\ Value(LastLine, "UV") = Num(0)

\* A telemetry record from its first key to its last.
IsTelemetry(line) ==
    /\ Len(line) \in {7, 15}
    /\ line[1][1] = "fw"
    /\ line[Len(line)][1] = "TSL_Full"

CyclePcs == {"read", "while", "uv", "tsl", "emit"}

(***************************************************************************)
(* C10: loop() writes exactly one line, a complete telemetry record, and   *)
(* leaves no token pending; before the record nothing is written, after it *)
(* nothing more; and a cycle that has begun reaches its record.            *)
(***************************************************************************)
C10_OneRecordPerCycle ==
    /\ [](pc \in CyclePcs => serialOut = <<>> /\ serialLine = <<>>)
    /\ [](Emitted => /\ Len(serialOut) = 1
                     /\ serialLine = <<>>
                     /\ IsTelemetry(serialOut[1]))
    /\ [][Emitted => serialOut' = serialOut /\ serialLine' = serialLine]_vars
    /\ (pc \in CyclePcs ~> Emitted)

\* A record written in a cycle in which every sensor was read and the
\* spectral re-read failed.
C10_Witness ==
    /\ Emitted
    /\ Len(serialOut) = 1
    /\ as7341_ok /\ ltr390_ok /\ tsl2591_ok
    /\ lastRead = "fail"
    /\ nReads["as7341"] = 3

(***************************************************************************)
(* Reading the boot output.                                                *)
(***************************************************************************)
\* setup() has returned and loop() has not yet been entered.
AfterBoot == pc = "loop" /\ Len(serialOut) >= 12

\* The i-th of the seven lines setup() writes from the AS7341 on.
BootLine(i) == serialOut[Len(serialOut) - 7 + i]

\* The line setup() writes for a sensor's outcome.
OutcomeLine(ok, okText, failText) ==
    IF ok THEN << <<"status", Str(okText)>> >> ELSE << <<"error", Str(failText)>> >>

\* After the search, before loop() returns.
PostSearchPcs == {"uv", "tsl", "emit", "tft"}

\* All eight channels are below 1000.
AllLow(ch) == \A i \in 1..8 : ch[i] < 1000

(***************************************************************************)
(* C11: setup() calls begin() once per sensor in the order AS7341, LTR390, *)
(* TSL2591, whatever the earlier outcomes, writes one outcome line per     *)
(* sensor that agrees with the flag it recorded, and always ends with the  *)
(* readiness summary carrying the three recorded flags.                    *)
(***************************************************************************)
C11_BootSequence ==
    /\ [](/\ BankPending
               => initCalls = [s \in Sensors |-> 0]
          /\ pc = "init_ltr390"
               => initCalls = [s \in Sensors |-> IF s = "as7341" THEN 1 ELSE 0]
          /\ pc = "init_tsl2591"
               => initCalls = [s \in Sensors |-> IF s = "tsl2591" THEN 0 ELSE 1]
          /\ pc \notin {"setup"} \cup InitPcs
               => initCalls = [s \in Sensors |-> 1])
    /\ [](AfterBoot =>
            /\ BootLine(1) = << <<"status", Str("init_as7341")>> >>
            /\ BootLine(2) = OutcomeLine(as7341_ok, "as7341_ok", "as7341_not_found")
            /\ BootLine(3) = << <<"status", Str("init_ltr390")>> >>
            /\ BootLine(4) = OutcomeLine(ltr390_ok, "ltr390_ok", "ltr390_not_found")
            /\ BootLine(5) = << <<"status", Str("init_tsl2591")>> >>
            /\ BootLine(6) = OutcomeLine(tsl2591_ok, "tsl2591_ok", "tsl2591_not_found")
            /\ Len(BootLine(7)) = 4
            /\ Value(BootLine(7), "status") = Str("ready")
            /\ Value(BootLine(7), "as7341") = Bool(as7341_ok)
            /\ Value(BootLine(7), "ltr390") = Bool(ltr390_ok)
            /\ Value(BootLine(7), "tsl2591") = Bool(tsl2591_ok)
            /\ serialLine = <<>>)
    /\ (pc \in BootPcs ~> AfterBoot)

\* Boot has ended with the first sensor failed and the two later ones up.
C11_Witness ==
    /\ AfterBoot
    /\ ~as7341_ok /\ ltr390_ok /\ tsl2591_ok
    /\ initCalls = [s \in Sensors |-> 1]

(***************************************************************************)
(* C12: GainIndex is 5 throughout setup() and when the first loop() is     *)
(* entered, and no step other than a call of adjust changes it: it is      *)
(* carried unchanged from the end of one cycle into the next.              *)
(***************************************************************************)
C12_GainOnlyByAdjust ==
    /\ []((pc \in BootPcs \/ AfterBoot) => currentGainIndex = 5)
    /\ [][pc # "while" => currentGainIndex' = currentGainIndex]_vars
    /\ [][~AdjustStep => currentGainIndex' = currentGainIndex]_vars

\* A cycle starts with the index an earlier cycle left at 8.
C12_Witness ==
    /\ pc = "read"
    /\ nReads["as7341"] = 0
    /\ currentGainIndex = 8

(***************************************************************************)
(* C13: a call of adjust with maxVal >= 60000 at GainIndex 0 returns       *)
(* Unchanged and leaves GainIndex 0.                                       *)
(***************************************************************************)
C13_Floor ==
    [][ (AdjustStep /\ SetMax(channels) >= 60000 /\ currentGainIndex = 0)
          => /\ lastAdjust' = "Unchanged"
             /\ currentGainIndex' = 0
             /\ as7341_gain' = as7341_gain ]_vars

\* adjust has judged a saturated reading at the floor.
C13_Witness ==
    /\ pc = "uv"
    /\ lastAdjust = "Unchanged"
    /\ lastRead = "ok"
    /\ SetMax(channels) = 65535
    /\ currentGainIndex = 0

(***************************************************************************)
(* C14 as stated: a call of adjust with all channels below 1000 at         *)
(* GainIndex 10 returns Unchanged, leaves GainIndex 10, and the cycle      *)
(* makes exactly one spectral read.                                        *)
(***************************************************************************)
C14_Original ==
    [][ (AdjustStep /\ AllLow(channels) /\ currentGainIndex = 10)
          => /\ lastAdjust' = "Unchanged"
             /\ currentGainIndex' = 10
             /\ pc' = "uv"
             /\ nReads'["as7341"] = 1 ]_vars

(***************************************************************************)
(* C14 amended: a call of adjust with all channels below 1000 at           *)
(* GainIndex 10 returns Unchanged, leaves GainIndex 10, and ends the       *)
(* search with no further spectral read; the cycle makes exactly one read  *)
(* when that call judged the cycle's first read.                           *)
(***************************************************************************)
C14_Ceiling ==
    /\ [][ (AdjustStep /\ AllLow(channels) /\ currentGainIndex = 10)
             => /\ lastAdjust' = "Unchanged"
                /\ currentGainIndex' = 10
                /\ pc' = "uv"
                /\ nReads' = nReads
                /\ attempts = 1 => nReads'["as7341"] = 1 ]_vars
    /\ []((pc \in PostSearchPcs /\ lastRead = "ok" /\ AllLow(channels)
             /\ currentGainIndex = 10 /\ lastAdjust = "Unchanged")
            => /\ nReads["as7341"] = nAdjusts
               /\ nAdjusts = 1 => nReads["as7341"] = 1)

\* A cycle entered at the ceiling has made its one read of a low signal.
C14_Witness ==
    /\ pc = "uv"
    /\ lastAdjust = "Unchanged"
    /\ AllLow(channels)
    /\ currentGainIndex = 10
    /\ nReads["as7341"] = 1

(***************************************************************************)
(* C15: when the TSL2591 is Ready and calculateLux returns NaN, the record *)
(* holds TSL_Lux once with the value 0.0, and TSL_IR and TSL_Full hold the *)
(* high and low halves of the luminosity that was read.                    *)
(***************************************************************************)
C15_NaNLux ==
    (Emitted /\ tsl2591_ok /\ tslRaw.lux = NaN) =>
      /\ Count(LastLine, "TSL_Lux") = 1
      /\ Value(LastLine, "TSL_Lux").t = "flt"
      /\ Value(LastLine, "TSL_Lux").v = 0
      /\ Value(LastLine, "TSL_IR") = Num(tslRaw.lum \div 65536)
      /\ Value(LastLine, "TSL_Full") = Num(tslRaw.lum % 65536)

\* The record of a cycle whose lux was NaN on a luminosity of ir 5, full 0.
C15_Witness ==
    /\ Emitted
    /\ tsl2591_ok
    /\ tslRaw = [lum |-> 5 * 65536, lux |-> NaN]
    /\ Value(LastLine, "TSL_IR") = Num(5)

(***************************************************************************)
(* C18: adjust is called only on a read that has just succeeded; after a   *)
(* failed read, the first or a later one, the search ends at once with no  *)
(* call of adjust and no further read, and GainIndex is what it was before *)
(* that read.                                                              *)
(***************************************************************************)
C18_AdjustOnlyAfterGoodRead ==
    /\ [][AdjustStep => pc = "while" /\ asOk /\ lastRead = "ok"
                        /\ channels = as7341_readings]_vars
    /\ [][pc = "read" => currentGainIndex' = currentGainIndex]_vars
    /\ [][(pc = "while" /\ lastRead = "fail")
            => /\ pc' = "uv"
               /\ nAdjusts' = nAdjusts
               /\ currentGainIndex' = currentGainIndex
               /\ as7341_gain' = as7341_gain]_vars
    /\ [](lastRead = "fail" => /\ pc # "read"
                               /\ nAdjusts = nReads["as7341"] - 1)

\* The third read of a cycle failed and the search has ended.
C18_Witness ==
    /\ pc = "uv"
    /\ lastRead = "fail"
    /\ nReads["as7341"] = 3
    /\ nAdjusts = 2

(***************************************************************************)
(* C19: in every record that holds F1..F8, the gain field names the gain   *)
(* the sensor had when those channel values were read.                     *)
(***************************************************************************)
C19_GainMatchesData ==
    (Emitted /\ SpectralKeys \subseteq Keys(LastLine)) =>
      /\ currentGainIndex = readGain
      /\ Value(LastLine, "gain") = Str(gainNames[readGain + 1])

(***************************************************************************)
(* C20: with the AS7341 Ready, if every read succeeds with                 *)
(* maxVal >= 60000 then GainIndex reaches 0 and stays there, and if every  *)
(* read succeeds with all channels below 1000 then GainIndex reaches 10    *)
(* and stays there; from then on every cycle makes exactly one read.       *)
(***************************************************************************)
BankReady == ~BankPending => as7341_ok

AlwaysSaturated ==
    /\ lastRead # "fail"
    /\ lastRead = "ok" => SetMax(channels) >= 60000

AlwaysLow ==
    /\ lastRead # "fail"
    /\ lastRead = "ok" => AllLow(channels)

OneReadPerCycle == pc \in PostSearchPcs => nReads["as7341"] = 1

C20_Convergence ==
    /\ [](BankReady /\ AlwaysSaturated)
         => <>[](currentGainIndex = 0 /\ OneReadPerCycle)
    /\ [](BankReady /\ AlwaysLow)
         => <>[](currentGainIndex = 10 /\ OneReadPerCycle)

\* A cycle entered at the floor has made its one read, again saturated.
C20_Witness ==
    /\ pc = "tft"
    /\ as7341_ok
    /\ tftAs = "OK"
    /\ currentGainIndex = 0
    /\ SetMax(channels) >= 60000
    /\ lastAdjust = "Unchanged"
    /\ nReads["as7341"] = 1


(***************************************************************************)
(* Reading the dashboard: what was sent, what has arrived, and what the    *)
(* state should hold, told from the messages and not from the text.        *)
(***************************************************************************)
\* The messages whose line feed has arrived, in the order sent: every
\* message ends with the one line feed it holds.
Processed ==
    SubSeq(txMsgs, 1,
           Len(txMsgs)
             - Cardinality({i \in 1..Len(rxStream) : rxStream[i].t = "nl"}))

\* The processed messages as the dashboard received them: message i is a
\* record there when it was sent as one and no readLoop ended holding more
\* of it than the white space before its opening brace.
Received ==
    [i \in 1..Len(Processed) |->
        [Processed[i] EXCEPT !.isRecord = @ /\ i \notin broken]]

\* Every field name of the initial state and of the messages.
FieldNames ==
    InitialKeys \cup UNION {Keys(MsgTable[i].line) : i \in 1..Len(MsgTable)}

\* Two JavaScript values are the same value.
Same(a, b) == a.t = b.t /\ a.v = b.v

\* The records among msgs that carry field k.
Carriers(msgs, k) ==
    {i \in 1..Len(msgs) : msgs[i].isRecord /\ k \in Keys(msgs[i].line)}

\* The value of field k in a record: that of its last member named k.
FieldOf(line, k) ==
    LET at == {i \in 1..Len(line) : line[i][1] = k}
    IN  JsValue(line[CHOOSE i \in at : \A j \in at : j <= i][2])

\* State d is state prev after the records among msgs: each field has the
\* value of the last record that carries it, and a field no record carries
\* is as it was in prev, absent if it was absent.
Agrees(d, prev, msgs) ==
    \A k \in FieldNames :
        LET has == Carriers(msgs, k)
        IN  IF has = {}
            THEN /\ k \in DOMAIN d <=> k \in DOMAIN prev
                 /\ k \in DOMAIN prev => Same(d[k], prev[k])
            ELSE /\ k \in DOMAIN d
                 /\ Same(d[k],
                         FieldOf(msgs[CHOOSE i \in has :
                                          \A j \in has : j <= i].line, k))

(***************************************************************************)
(* C16.  Consumer merge: after the dashboard has processed any sequence of *)
(* complete record lines, each field of its state has the value of that    *)
(* field in the most recent processed record that contained it, and a      *)
(* field no record contained has its initial value; {"F1":10} followed by  *)
(* {"UV":5} gives F1 = 10 and UV = 5.                                      *)
(***************************************************************************)
C16_ConsumerMerge ==
    \A got \in {Received} :
        (\A i \in 1..Len(got) : got[i].isRecord)
            => /\ DOMAIN data \subseteq FieldNames
               /\ Agrees(data, InitialData, got)

\* {"F1":10} then {"UV":5} have been processed: F1 is 10 and UV is 5.
C16_Witness ==
    /\ dpc = "reading"
    /\ Len(txMsgs) = 2
    /\ Len(Processed) = 2
    /\ txMsgs[1].isRecord /\ Keys(txMsgs[1].line) = {"F1"}
    /\ txMsgs[2].isRecord /\ Keys(txMsgs[2].line) = {"UV"}
    /\ Same(data["F1"], Num(10))
    /\ Same(data["UV"], Num(5))
    /\ Same(data["F2"], Num(0))

(***************************************************************************)
(* C17.  Consumer error handling: a received line that is not a complete   *)
(* structured record (not enclosed in braces, or failing to parse) leaves  *)
(* the dashboard state unchanged and does not stop the read loop; every    *)
(* later well-formed line is still merged.  Every turn of the read loop    *)
(* leaves readLoop reading, and changes the state by the records among the *)
(* lines it processed and by nothing else.                                 *)
(***************************************************************************)
C17_BadLinesIgnored ==
    [][rxStream' # rxStream
         => \A new \in {SubSeq(Received', Len(Processed) + 1,
                                Len(Processed'))} :
                /\ dpc' = "reading"
                /\ Agrees(data', data, new)
      ]_allVars

\* A record whose lux is inf was dropped whole, UV with it, and the record
\* {"F1":10} after it was merged.
C17_Witness ==
    /\ dpc = "reading"
    /\ Len(txMsgs) = 2
    /\ Len(Processed) = 2
    /\ ~txMsgs[1].isRecord /\ Keys(txMsgs[1].line) = {"UV", "TSL_Lux"}
    /\ txMsgs[2].isRecord /\ Keys(txMsgs[2].line) = {"F1"}
    /\ Same(data["F1"], Num(10))
    /\ Same(data["UV"], Num(0))
    /\ Same(data["TSL_Lux"], Num(0))


(***************************************************************************)
(* C21.  Chunking invariance of the consumer: for any way of splitting the *)
(* same text into received chunks, the dashboard processes the same        *)
(* sequence of lines and ends in the same merged state; a record split     *)
(* across several chunks is applied exactly once, only after its line feed *)
(* has arrived, and an unterminated trailing fragment is never applied.    *)
(* Whatever the chunks were, the number of lines taken, the calls of       *)
(* setData, the state and the text kept are those the arrived text alone   *)
(* determines: one line per line feed, one call per record received, and   *)
(* in the buffer the text after the last line feed, less what an earlier   *)
(* readLoop took with it.                                                  *)
(***************************************************************************)
\* Two texts are the same text.
SameText(a, b) ==
    /\ Len(a) = Len(b)
    /\ \A i \in 1..Len(a) : Same(a[i], b[i])

\* The text that has arrived at the dashboard, in any chunks.
Arrived ==
    LET sent == WireText(txMsgs) \o txTail
    IN  SubSeq(sent, 1, Len(sent) - Len(rxStream))

\* The arrived text after its last line feed.
Unterminated ==
    LET feeds == {i \in 1..Len(Arrived) : Arrived[i].t = "nl"}
        last == IF feeds = {} THEN 0
                ELSE CHOOSE f \in feeds : \A g \in feeds : g <= f
    IN  SubSeq(Arrived, last + 1, Len(Arrived))

\* A text without its first n lexemes.
Drop(text, n) == SubSeq(text, n + 1, Len(text))

C21_ChunkingInvariance ==
    \A got \in {Received} :
        /\ nLines = Len(got)
        /\ nSetData = Cardinality({i \in 1..Len(got) : got[i].isRecord})
        /\ Agrees(data, InitialData, got)
        /\ \A rest \in {Drop(Unterminated, lostNow)} :
               SameText(buffer, rest)

\* {"F1":10} has been applied, once.  Of {"UV":5} after it a first chunk has
\* arrived and is kept in the buffer, the rest and the line feed have not:
\* the record is not applied yet.
C21_Witness ==
    /\ dpc = "reading"
    /\ Len(txMsgs) = 2
    /\ txMsgs[1].isRecord /\ Keys(txMsgs[1].line) = {"F1"}
    /\ txMsgs[2].isRecord /\ Keys(txMsgs[2].line) = {"UV"}
    /\ Len(txMsgs[2].text) = 5
    /\ lostNow = 0
    /\ broken = {}
    /\ nLines = 1
    /\ nSetData = 1
    /\ Len(buffer) = 3
    /\ Len(rxStream) = 4
    /\ Same(data["F1"], Num(10))
    /\ Same(data["UV"], Num(0))

\* All the text has arrived in one connection: the record {"UV":5} was
\* applied once; the record after it, whose line end was never written, is
\* kept in the buffer and not applied.
C21_TailKept ==
    /\ dpc = "reading"
    /\ Len(rxStream) = 0
    /\ lostNow = 0
    /\ broken = {}
    /\ Len(txMsgs) = 1
    /\ txMsgs[1].isRecord /\ Keys(txMsgs[1].line) = {"UV"}
    /\ Len(txMsgs[1].text) = 5
    /\ Len(txTail) > 0
    /\ Len(buffer) = Len(txTail)
    /\ nSetData = 1
    /\ Same(data["UV"], Num(5))
    /\ Same(data["F1"], Num(0))

=============================================================================
